---- MODULE Spec2Model ----
(***************************************************************************)
(* swapbytes: peers that trade files over libp2p request/response          *)
(* channels.  Each peer runs one event loop (main.rs) over its ChatState   *)
(* (nickname directory, incoming/outgoing trades), its LocalFileStore and  *)
(* the traded_files directory.  A step of the model is one whole handler:  *)
(* an input line (input.rs) or an inbound network event (events.rs).       *)
(***************************************************************************)
EXTENDS Integers, Sequences, FiniteSets, Bags, TLC

VARIABLES
    nickname,          \* chat_state.nickname, per peer
    peer_to_nickname,  \* identity -> nickname half of the directory, per peer
    nickname_to_peer,  \* nickname -> identity half of the directory, per peer
    incoming_trades,   \* chat_state.incoming_trades, per peer
    outgoing_trades,   \* chat_state.outgoing_trades, per peer
    metadata,          \* LocalFileStore.metadata, per peer
    files,             \* LocalFileStore.files, per peer
    traded_files,      \* the traded_files/ directory on disk, per peer
    net,               \* request/response messages in flight (a bag)
    pending_keys,      \* chat_state.pending_keys: tracked query ids, per peer
    queries,           \* keys of the kademlia queries issued so far, per
                       \* peer; the query with id i is the (i+1)-th
    shown,             \* history: query ids whose found record was processed
    finished,          \* query ids whose lookup kademlia has finished, per peer
    explicit_peers,    \* gossipsub explicit peers, per peer
    loop,              \* where the main loop of each peer stands
    put_records,       \* the records handed to kademlia.put_record, the
                       \* latest under each key, per peer
    last               \* history: the handler that last changed the state,
                       \* and its outcome

chat_vars == <<nickname, peer_to_nickname, nickname_to_peer>>
trade_vars == <<incoming_trades, outgoing_trades>>
store_vars == <<metadata, files>>
kad_vars == <<pending_keys, queries, shown, finished>>
loop_vars == <<explicit_peers, loop>>
\* what the trade, nickname and upload handlers never touch
rest_vars == <<kad_vars, loop_vars, put_records>>
vars == <<nickname, peer_to_nickname, nickname_to_peer, incoming_trades,
          outgoing_trades, metadata, files, traded_files, net, last,
          pending_keys, queries, shown, finished, explicit_peers, loop,
          put_records>>

----------------------------------------------------------------------------
(* Bounds of the model *)

\* messages in flight at once, over all channels
MaxInFlight == 2
\* kademlia queries one peer issues in a run
MaxQueries == 3

----------------------------------------------------------------------------
(* Option and HashMap *)

None == <<>>
Some(v) == <<v>>
IsSome(o) == o # <<>>
Unwrap(o) == o[1]

EmptyMap == [k \in {} |-> k]
MapGet(m, k) == IF k \in DOMAIN m THEN Some(m[k]) ELSE None
MapInsert(m, k, v) == [x \in (DOMAIN m) \cup {k} |-> IF x = k THEN v ELSE m[x]]
MapRemove(m, k) == [x \in (DOMAIN m) \ {k} |-> m[x]]

----------------------------------------------------------------------------
(* Identities, nicknames, files on the users' disks *)

\* the running peers
Peers == {"X", "Y"}
\* every identity string a directory or ledger can be keyed by
Ids == Peers \cup {"Z"}
\* display names users type at the nickname prompt
Names == {"ann", "bob"}

\* the tail of the identity string (peer_id.to_string()[47..])
IdSuffix(id) == <<"tail", id>>

\* name + "." + suffix of the local identity
derive_nickname(name, id) == <<name, ".", IdSuffix(id)>>

AllNicknames == {derive_nickname(n, id) : n \in Names, id \in Ids}

\* PeerId::from_str on a string held in the directory
PeerIdFromStr(s) == IF s \in Ids THEN Some(s) ELSE None

\* files a user can name in /upload: path, file name and bytes
DiskFiles ==
    [X |-> {[filename |-> "a.txt", bytes |-> <<1, 2, 3>>]},
     Y |-> {[filename |-> "b.txt", bytes |-> <<200, 17>>]}]

AllDiskFiles == UNION {DiskFiles[p] : p \in Peers}

----------------------------------------------------------------------------
(* files.rs *)

\* hex characters kept of the digest
HashHexLen == 8
\* bytes of a SHA-256 digest
DigestLen == 32

\* Stand-in for SHA-256: the data, zero-padded or cut to the digest length.
\* Like the real digest it is a fixed-length function of the bytes alone.
Sha256(data) ==
    [i \in 1..DigestLen |-> IF i <= Len(data) THEN data[i] ELSE 0]

\* hex::encode: two hex digits (0..15) per byte, high digit first
HexEncode(bytes) ==
    [i \in 1..(2 * Len(bytes)) |->
        IF i % 2 = 1 THEN bytes[(i + 1) \div 2] \div 16
                     ELSE bytes[i \div 2] % 16]

compute_hash(data) == SubSeq(HexEncode(Sha256(data)), 1, HashHexLen)

FileMetadata(filename, owner, description, data) ==
    [filename |-> filename, owner |-> owner, description |-> description,
     hash |-> compute_hash(data), size |-> Len(data)]

\* faulty variant: the bytes are not kept
add_file_files_dropped(p, data) == files[p]
\* LocalFileStore::add_file: the two maps after the insert
add_file_files(p, data) == MapInsert(files[p], compute_hash(data), data)
\* faulty variant: the record of the file is not kept
add_file_metadata_dropped(p, data, filename, description) == metadata[p]
add_file_metadata(p, data, filename, description) ==
    MapInsert(metadata[p], compute_hash(data),
              FileMetadata(filename, p, description, data))

\* faulty variant: a missing hash yields a default record instead of nothing
get_metadata_or_default(p, hash) ==
    IF hash \in DOMAIN metadata[p] THEN Some(metadata[p][hash])
    ELSE Some(FileMetadata("", p, None, <<>>))
get_metadata(p, hash) == MapGet(metadata[p], hash)
get_file(p, hash) == MapGet(files[p], hash)
contains_file(p, hash) == hash \in DOMAIN files[p]

\* faulty variant: the call reports success and writes nothing
save_file_to_filesystem_nowhere(p, data, filename, io) == traded_files[p]
\* save_file_to_filesystem: the directory after the call.  "ok" writes the
\* data under the file name; "err" (the directory or the file could not be
\* created) leaves the directory as it was.
IoOutcomes == {"ok", "err"}
save_file_to_filesystem(p, data, filename, io) ==
    IF io = "ok" THEN MapInsert(traded_files[p], filename, data)
    ELSE traded_files[p]

----------------------------------------------------------------------------
(* The nickname directory of ChatState *)

\* insert: both directions are written
\* faulty variant: the entry is not written
insert_peer_to_nickname_skipped(p, id, nick) == peer_to_nickname[p]
insert_peer_to_nickname(p, id, nick) == MapInsert(peer_to_nickname[p], id, nick)
\* faulty variant: a nickname that is already taken keeps its first owner
insert_nickname_to_peer_first(p, id, nick) ==
    IF nick \in DOMAIN nickname_to_peer[p] THEN nickname_to_peer[p]
    ELSE MapInsert(nickname_to_peer[p], nick, id)
insert_nickname_to_peer(p, id, nick) == MapInsert(nickname_to_peer[p], nick, id)

\* faulty variant: a missing identity resolves to a fixed placeholder
resolve_nickname_placeholder(p, id) ==
    IF id \in DOMAIN peer_to_nickname[p] THEN peer_to_nickname[p][id]
    ELSE "Failed to get nickname"
\* nicknames.get: the nickname, or the identity string itself
resolve_nickname(p, id) ==
    IF id \in DOMAIN peer_to_nickname[p] THEN peer_to_nickname[p][id] ELSE id

\* nicknames.get_key_from_value: the identity, or None
resolve_identity(p, nick) == MapGet(nickname_to_peer[p], nick)

----------------------------------------------------------------------------
(* Messages of the request/response channels *)

Msg(ch, kind, src, dst, body) ==
    [ch |-> ch, kind |-> kind, src |-> src, dst |-> dst, body |-> body]

InFlight == BagToSet(net)
Send(m) == net (+) SetToBag({m})
\* the handler of m answers on m's channel
Reply(m, body) ==
    (net (-) SetToBag({m})) (+) SetToBag({Msg(m.ch, "Response", m.dst, m.src, body)})
Consume(m) == net (-) SetToBag({m})
CanSend(n) == BagCardinality(net) + n <= MaxInFlight

TradeRequest(offered_file, requested_file, nick) ==
    [offered_file |-> offered_file, requested_file |-> requested_file,
     nickname |-> nick]
FileResponse(file, meta) == [file |-> file, metadata |-> meta]

Last(op, res) == [op |-> op, res |-> res]

----------------------------------------------------------------------------
(* Records of the DHT *)

\* record keys: "file_index::<peer>", "file::<hash>"; the target of a
\* get_closest_peers query
FileIndexKey(q) == <<"file_index", q>>
FileKey(hash) == <<"file", hash>>
ClosestPeers(q) == <<"closest_peers", q>>

\* record values as the DHT hands them over: CBOR of a FileMetadata, CBOR of
\* a list of hashes, or bytes that are neither
CborMetadata(meta) == <<"cbor_metadata", meta>>
CborHashes(hashes) == <<"cbor_hashes", hashes>>
Junk == <<"junk">>

\* the orders a set can be listed in
RECURSIVE Orders(_)
Orders(S) ==
    IF S = {} THEN {<<>>}
    ELSE UNION {{<<x>> \o rest : rest \in Orders(S \ {x})} : x \in S}

\* faulty variant: the index lists the file just added only
all_hashes_one(store_files, hash) == {<<hash>>}
\* LocalFileStore::all_hashes after the add of hash: the keys of the files
\* map, in the order the map happens to iterate
all_hashes(store_files, hash) == Orders(DOMAIN store_files)

----------------------------------------------------------------------------
(* input.rs: handle_input_line *)

\* files that exist under the paths the users name in /upload
UploadDisk ==
    [X |-> DiskFiles["X"] \cup {[filename |-> "c.txt", bytes |-> <<7>>],
                                [filename |-> "copy.txt", bytes |-> <<1, 2, 3>>]},
     Y |-> DiskFiles["Y"] \cup {[filename |-> "e.txt", bytes |-> <<>>]}]

\* /upload <path> <description?>
UploadCommand(p, f, description) ==
    LET hash == compute_hash(f.bytes)
        store_files == add_file_files(p, f.bytes)
        store_metadata == add_file_metadata(p, f.bytes, f.filename, description)
    IN
    /\ f \in UploadDisk[p]
    /\ files' = [files EXCEPT ![p] = store_files]
    /\ metadata' = [metadata EXCEPT ![p] = store_metadata]
    /\ \E file_hashes \in all_hashes(store_files, hash) :
          put_records' = [put_records EXCEPT
              ![p] = MapInsert(MapInsert(@, FileKey(hash),
                                         CborMetadata(store_metadata[hash])),
                               FileIndexKey(p), CborHashes(file_hashes))]
    /\ last' = Last("upload", "stored")
    /\ UNCHANGED <<kad_vars, loop_vars, chat_vars, trade_vars, traded_files, net>>

\* faulty variant: the incoming ledger is not consulted
has_incoming_trade_unchecked(p, q) == FALSE
has_incoming_trade(p, q) == q \in DOMAIN incoming_trades[p]
has_outgoing_trade(p, q) == q \in DOMAIN outgoing_trades[p]

\* the branch /trade takes
trade_outcome(p, nick, offered_hash, requested_hash) ==
    LET id == resolve_identity(p, nick) IN
    IF id = None THEN "nickname_not_found"
    ELSE IF PeerIdFromStr(Unwrap(id)) = None THEN "bad_peer_id"
    ELSE IF has_incoming_trade(p, Unwrap(id)) THEN "incoming_open"
    ELSE IF has_outgoing_trade(p, Unwrap(id)) THEN "outgoing_open"
    ELSE IF get_metadata(p, offered_hash) = None THEN "no_offered_file"
    ELSE "sent"

\* /trade <nickname> <offered_file_hash> <requested_file_hash>
TradeCommand(p, nick, offered_hash, requested_hash) ==
    LET outcome == trade_outcome(p, nick, offered_hash, requested_hash) IN
    /\ last' = IF outcome = "sent" THEN Last("trade", outcome) ELSE last
    /\ IF outcome = "sent"
       THEN LET q == Unwrap(resolve_identity(p, nick))
                trade == TradeRequest(Unwrap(get_metadata(p, offered_hash)),
                                      requested_hash, nickname[p])
            IN /\ CanSend(1)
               /\ outgoing_trades' =
                      [outgoing_trades EXCEPT ![p] = MapInsert(@, q, trade)]
               /\ net' = Send(Msg("trade_request", "Request", p, q, trade))
               /\ UNCHANGED <<rest_vars, chat_vars, incoming_trades, store_vars,
                              traded_files>>
       ELSE UNCHANGED <<rest_vars, chat_vars, trade_vars, store_vars, traded_files, net>>

\* the branch /trade_accept takes
trade_accept_outcome(p, nick) ==
    LET id == resolve_identity(p, nick) IN
    IF id = None THEN "nickname_not_found"
    ELSE IF PeerIdFromStr(Unwrap(id)) = None THEN "bad_peer_id"
    ELSE IF ~has_incoming_trade(p, Unwrap(id)) THEN "no_incoming_trade"
    ELSE LET trade_request == incoming_trades[p][Unwrap(id)] IN
         IF get_file(p, trade_request.requested_file) = None
         THEN "no_requested_file"
         ELSE IF get_metadata(p, trade_request.requested_file) = None
         THEN "no_requested_metadata"
         ELSE "sent"

\* faulty variant: accepting takes the proposal out of the ledger
trade_accept_incoming_removed(p, q) == MapRemove(incoming_trades[p], q)
\* the incoming ledger of p after a /trade_accept toward q that was sent
trade_accept_incoming(p, q) == incoming_trades[p]

\* /trade_accept <nickname>
TradeAcceptCommand(p, nick) ==
    LET outcome == trade_accept_outcome(p, nick) IN
    /\ last' = IF outcome = "sent" THEN Last("trade_accept", outcome) ELSE last
    /\ IF outcome = "sent"
       THEN LET q == Unwrap(resolve_identity(p, nick))
                trade_request == incoming_trades[p][q]
                response ==
                    FileResponse(Unwrap(get_file(p, trade_request.requested_file)),
                                 Unwrap(get_metadata(p, trade_request.requested_file)))
            IN /\ CanSend(1)
               /\ incoming_trades' =
                      [incoming_trades EXCEPT ![p] = trade_accept_incoming(p, q)]
               /\ net' = Send(Msg("file_transfer", "Request", p, q,
                                  [payload |-> Some(response)]))
               /\ UNCHANGED <<rest_vars, chat_vars, outgoing_trades, store_vars,
                              traded_files>>
       ELSE UNCHANGED <<rest_vars, chat_vars, trade_vars, store_vars, traded_files, net>>

\* the branch /trade_decline takes
\* faulty variant: the incoming ledger is not consulted before declining
trade_decline_outcome_unchecked(p, nick) ==
    LET id == resolve_identity(p, nick) IN
    IF id = None THEN "nickname_not_found"
    ELSE IF PeerIdFromStr(Unwrap(id)) = None THEN "bad_peer_id"
    ELSE "declined"
trade_decline_outcome(p, nick) ==
    LET id == resolve_identity(p, nick) IN
    IF id = None THEN "nickname_not_found"
    ELSE IF PeerIdFromStr(Unwrap(id)) = None THEN "bad_peer_id"
    ELSE IF ~has_incoming_trade(p, Unwrap(id)) THEN "no_incoming_trade"
    ELSE "declined"

\* the incoming ledger of p after a /trade_decline toward q that was sent
\* faulty variant: declining leaves the proposal in the ledger
trade_decline_incoming_kept(p, q) == incoming_trades[p]
trade_decline_incoming(p, q) == MapRemove(incoming_trades[p], q)

\* /trade_decline <nickname>
TradeDeclineCommand(p, nick) ==
    LET outcome == trade_decline_outcome(p, nick) IN
    /\ last' = IF outcome = "declined" THEN Last("trade_decline", outcome) ELSE last
    /\ IF outcome = "declined"
       THEN LET q == Unwrap(resolve_identity(p, nick))
            IN /\ CanSend(1)
               /\ incoming_trades' =
                      [incoming_trades EXCEPT ![p] = trade_decline_incoming(p, q)]
               /\ net' = Send(Msg("file_transfer", "Request", p, q,
                                  [payload |-> None]))
               /\ UNCHANGED <<rest_vars, chat_vars, outgoing_trades, store_vars,
                              traded_files>>
       ELSE UNCHANGED <<rest_vars, chat_vars, trade_vars, store_vars, traded_files, net>>

\* DirectMessage {message, sender_nickname}
DirectMessage(message, sender_nickname) ==
    [message |-> message, sender_nickname |-> sender_nickname]

\* faulty variant: anybody in the directory may be written to
dm_trading_anybody(p, q) == TRUE
\* whether the users are trading together: a proposal from or to q is open
dm_trading(p, q) == has_incoming_trade(p, q) \/ has_outgoing_trade(p, q)

\* the branch /dm takes
dm_outcome(p, nick) ==
    LET id == resolve_identity(p, nick) IN
    IF id = None THEN "nickname_not_found"
    ELSE IF PeerIdFromStr(Unwrap(id)) = None THEN "bad_peer_id"
    ELSE IF ~dm_trading(p, Unwrap(id)) THEN "no_open_trade"
    ELSE "sent"

\* /dm <nickname> <message>
DmCommand(p, nick, message) ==
    LET outcome == dm_outcome(p, nick) IN
    /\ last' = IF outcome = "sent" THEN Last("dm", outcome) ELSE last
    /\ IF outcome = "sent"
       THEN LET q == Unwrap(resolve_identity(p, nick)) IN
            /\ CanSend(1)
            /\ net' = Send(Msg("direct_message", "Request", p, q,
                               DirectMessage(message, nickname[p])))
       ELSE UNCHANGED net
    /\ UNCHANGED <<rest_vars, chat_vars, trade_vars, store_vars, traded_files>>

----------------------------------------------------------------------------
(* main.rs: where the loop of a peer stands *)

\* in tokio::select!, waiting for a line, a swarm event or the tick
Select == <<"select">>
\* inside the handler of the file-transfer request m, at the await of the
\* write, with the proposal the handler has taken out of the ledger
Saving(m, trade_details) == <<"save_file", m, trade_details>>
\* the process has ended: main has returned or a thread has panicked
Exited == <<"exited">>
\* inside the /nick handler, in prompt_for_nickname, at the await of the
\* next line of standard input
Prompting == <<"prompt_for_nickname">>

----------------------------------------------------------------------------
(* events.rs: handle_event *)

\* the peers the swarm is connected to
connected_peers(p) == Peers \ {p}

\* handle_kad_event, Bootstrap with nothing remaining: push the own nickname
BootstrapCompleted(p) ==
    /\ CanSend(Cardinality(connected_peers(p)))
    /\ net' = net (+) SetToBag({Msg("nickname_update", "Request", p, q,
                                     [nickname |-> nickname[p]])
                                 : q \in connected_peers(p)})
    /\ last' = Last("bootstrap", "sent")
    /\ UNCHANGED <<rest_vars, chat_vars, trade_vars, store_vars, traded_files>>

\* handle_nickname_event, Message::Request
NicknameRequest(p, m) ==
    /\ m \in InFlight /\ m.dst = p
    /\ m.ch = "nickname_update" /\ m.kind = "Request"
    /\ peer_to_nickname' = [peer_to_nickname EXCEPT
            ![p] = insert_peer_to_nickname(p, m.src, m.body.nickname)]
    /\ nickname_to_peer' = [nickname_to_peer EXCEPT
            ![p] = insert_nickname_to_peer(p, m.src, m.body.nickname)]
    /\ net' = Reply(m, [nickname |-> nickname[p]])
    /\ last' = Last("nickname_request", "stored")
    /\ UNCHANGED <<rest_vars, nickname, trade_vars, store_vars, traded_files>>

\* handle_nickname_event, Message::Response
NicknameResponse(p, m) ==
    /\ m \in InFlight /\ m.dst = p
    /\ m.ch = "nickname_update" /\ m.kind = "Response"
    /\ peer_to_nickname' = [peer_to_nickname EXCEPT
            ![p] = insert_peer_to_nickname(p, m.src, m.body.nickname)]
    /\ nickname_to_peer' = [nickname_to_peer EXCEPT
            ![p] = insert_nickname_to_peer(p, m.src, m.body.nickname)]
    /\ net' = Consume(m)
    /\ last' = Last("nickname_response", "stored")
    /\ UNCHANGED <<rest_vars, nickname, trade_vars, store_vars, traded_files>>

\* the acknowledgement a trade request gets
trade_request_ack(p, request) == contains_file(p, request.requested_file)

\* faulty variant: the request is recorded whether or not the file is there
trade_request_incoming_always(p, q, request) ==
    MapInsert(incoming_trades[p], q, request)
\* the incoming ledger after a trade request from q
trade_request_incoming(p, q, request) ==
    IF contains_file(p, request.requested_file)
    THEN MapInsert(incoming_trades[p], q, request)
    ELSE incoming_trades[p]

\* handle_trade_request_event, Message::Request; the response travels with
\* the identity of the request it answers (request_id), here the request
TradeRequestRequest(p, m) ==
    /\ m \in InFlight /\ m.dst = p
    /\ m.ch = "trade_request" /\ m.kind = "Request"
    /\ incoming_trades' =
           [incoming_trades EXCEPT ![p] = trade_request_incoming(p, m.src, m.body)]
    /\ net' = Reply(m, [ack |-> trade_request_ack(p, m.body), request |-> m.body])
    /\ last' = Last("trade_request",
                    IF contains_file(p, m.body.requested_file)
                    THEN "recorded" ELSE "file_absent")
    /\ UNCHANGED <<rest_vars, chat_vars, outgoing_trades, store_vars, traded_files>>

\* faulty variant: any acknowledgement ends the proposal
trade_response_outgoing_any(p, q, ack) == MapRemove(outgoing_trades[p], q)
\* the outgoing ledger after the acknowledgement of q arrives
trade_response_outgoing(p, q, ack) ==
    IF ack THEN outgoing_trades[p] ELSE MapRemove(outgoing_trades[p], q)

\* handle_trade_request_event, Message::Response
TradeRequestResponse(p, m) ==
    /\ m \in InFlight /\ m.dst = p
    /\ m.ch = "trade_request" /\ m.kind = "Response"
    /\ outgoing_trades' =
           [outgoing_trades EXCEPT ![p] = trade_response_outgoing(p, m.src, m.body.ack)]
    /\ net' = Consume(m)
    /\ last' = Last("trade_response",
                    IF m.body.ack THEN "acknowledged" ELSE "refused")
    /\ UNCHANGED <<rest_vars, chat_vars, incoming_trades, store_vars, traded_files>>

\* the response to a file-transfer request that carries a file
\* faulty variant: the offered file is never sent back
file_request_response_withheld(p, q) == None
\* faulty variant: the record of the offered file is sent without its bytes
file_request_response_empty(p, q) ==
    IF has_outgoing_trade(p, q)
    THEN Some(FileResponse(<<>>, outgoing_trades[p][q].offered_file))
    ELSE None
file_request_response(p, q) ==
    IF has_outgoing_trade(p, q)
    THEN LET trade_details == outgoing_trades[p][q]
             found == get_file(p, trade_details.offered_file.hash)
         IN Some(FileResponse(IF found = None THEN <<>> ELSE Unwrap(found),
                              trade_details.offered_file))
    ELSE None

\* the traded_files directory after a file-transfer request that carries a file
\* faulty variant: the received file is written before the ledger is consulted
file_request_saved_always(p, q, file_response, io) ==
    save_file_to_filesystem(p, file_response.file,
                            file_response.metadata.filename, io)
file_request_saved(p, q, file_response, io) ==
    IF has_outgoing_trade(p, q)
    THEN save_file_to_filesystem(p, file_response.file,
                                 file_response.metadata.filename, io)
    ELSE traded_files[p]

\* the lines the handler of a file-transfer request that carries a file
\* prints: nothing without an outgoing proposal; otherwise the failure of
\* the write, if it failed, and the success of the trade in either case
file_request_printed(p, q, io) ==
    IF ~has_outgoing_trade(p, q) THEN <<>>
    ELSE (IF io = "ok" THEN <<>> ELSE <<"Failed to save file">>)
         \o <<"Trade successful!">>

\* handle_file_transfer_event, Message::Request with Some(file_response)
FileTransferRequestSome(p, m, io) ==
    /\ m \in InFlight /\ m.dst = p
    /\ m.ch = "file_transfer" /\ m.kind = "Request"
    /\ m.body.payload # None
    /\ outgoing_trades' = [outgoing_trades EXCEPT ![p] = MapRemove(@, m.src)]
    /\ traded_files' = [traded_files EXCEPT
            ![p] = file_request_saved(p, m.src, Unwrap(m.body.payload), io)]
    /\ net' = Reply(m, [payload |-> file_request_response(p, m.src)])
    /\ last' = Last("file_request",
                    IF ~has_outgoing_trade(p, m.src) THEN "no_outgoing_trade"
                    ELSE IF io = "ok" THEN "swapped" ELSE "save_failed")
    /\ UNCHANGED <<rest_vars, chat_vars, incoming_trades, store_vars>>

\* The same handler in the two parts its await divides it into, for a
\* sender with an outgoing proposal.  First part: the proposal is removed
\* and the write of the received file is started; the handler is suspended
\* in save_file_to_filesystem(..).await, holding the request's channel.
FileTransferRequestAwait(p, m) ==
    /\ m \in InFlight /\ m.dst = p
    /\ m.ch = "file_transfer" /\ m.kind = "Request"
    /\ m.body.payload # None
    /\ has_outgoing_trade(p, m.src)
    /\ outgoing_trades' = [outgoing_trades EXCEPT ![p] = MapRemove(@, m.src)]
    /\ loop' = [loop EXCEPT ![p] = Saving(m, outgoing_trades[p][m.src])]
    /\ UNCHANGED <<put_records, kad_vars, explicit_peers, chat_vars, incoming_trades,
                   store_vars, traded_files, net, last>>

\* Second part: the write has returned; the response is built from the
\* removed proposal and sent, and the loop goes back to select!
FileTransferRequestResume(p, io) ==
    /\ loop[p][1] = "save_file"
    /\ LET m == loop[p][2]
           trade_details == loop[p][3]
           file_response == Unwrap(m.body.payload)
           found == get_file(p, trade_details.offered_file.hash)
       IN /\ traded_files' = [traded_files EXCEPT
                  ![p] = save_file_to_filesystem(p, file_response.file,
                             file_response.metadata.filename, io)]
          /\ net' = Reply(m, [payload |->
                      Some(FileResponse(IF found = None THEN <<>> ELSE Unwrap(found),
                                        trade_details.offered_file))])
    /\ loop' = [loop EXCEPT ![p] = Select]
    /\ last' = Last("file_request", IF io = "ok" THEN "swapped" ELSE "save_failed")
    /\ UNCHANGED <<put_records, kad_vars, explicit_peers, chat_vars, trade_vars, store_vars>>

\* handle_file_transfer_event, Message::Request with None (a decline)
FileTransferRequestNone(p, m) ==
    /\ m \in InFlight /\ m.dst = p
    /\ m.ch = "file_transfer" /\ m.kind = "Request"
    /\ m.body.payload = None
    /\ outgoing_trades' = [outgoing_trades EXCEPT ![p] = MapRemove(@, m.src)]
    /\ net' = Consume(m)
    /\ last' = Last("file_decline", "removed")
    /\ UNCHANGED <<rest_vars, chat_vars, incoming_trades, store_vars, traded_files>>

\* handle_file_transfer_event, Message::Response with Some(file)
FileTransferResponseSome(p, m, io) ==
    /\ m \in InFlight /\ m.dst = p
    /\ m.ch = "file_transfer" /\ m.kind = "Response"
    /\ m.body.payload # None
    /\ incoming_trades' = [incoming_trades EXCEPT ![p] = MapRemove(@, m.src)]
    /\ traded_files' = [traded_files EXCEPT
            ![p] = save_file_to_filesystem(p, Unwrap(m.body.payload).file,
                       Unwrap(m.body.payload).metadata.filename, io)]
    /\ net' = Consume(m)
    /\ last' = Last("file_response",
                    IF io = "ok" THEN "swapped" ELSE "save_failed")
    /\ UNCHANGED <<rest_vars, chat_vars, outgoing_trades, store_vars>>

\* handle_file_transfer_event, Message::Response with None
FileTransferResponseNone(p, m) ==
    /\ m \in InFlight /\ m.dst = p
    /\ m.ch = "file_transfer" /\ m.kind = "Response"
    /\ m.body.payload = None
    /\ net' = Consume(m)
    /\ last' = Last("file_response", "failed")
    /\ UNCHANGED <<rest_vars, chat_vars, trade_vars, store_vars, traded_files>>

\* handle_direct_message_event, Message::Request: the message is shown and
\* acknowledged
DirectMessageRequest(p, m) ==
    /\ m \in InFlight /\ m.dst = p
    /\ m.ch = "direct_message" /\ m.kind = "Request"
    /\ net' = Reply(m, [ack |-> TRUE])
    /\ last' = Last("dm_shown", m.body.message)
    /\ UNCHANGED <<rest_vars, chat_vars, trade_vars, store_vars, traded_files>>

\* handle_direct_message_event, Message::Response: ignored
DirectMessageResponse(p, m) ==
    /\ m \in InFlight /\ m.dst = p
    /\ m.ch = "direct_message" /\ m.kind = "Response"
    /\ net' = Consume(m)
    /\ UNCHANGED <<rest_vars, chat_vars, trade_vars, store_vars, traded_files,
                   last>>

----------------------------------------------------------------------------
(* events.rs and input.rs: kademlia lookups and mDNS *)

QueryIds == 0..(MaxQueries - 1)

\* the id the next kademlia query of p gets
next_query(p) == Len(queries[p])
\* the ids n new kademlia queries of p get: the next ones, never reused
new_query_ids(p, n) == next_query(p)..(next_query(p) + n - 1)

\* the elements of a set of peers in the order the swarm lists them
RECURSIVE SeqOfSet(_)
SeqOfSet(S) ==
    IF S = {} THEN <<>> ELSE LET x == CHOOSE x \in S : TRUE
                             IN <<x>> \o SeqOfSet(S \ {x})

\* serde_cbor::from_slice::<FileMetadata>
decode_metadata(value) ==
    IF value[1] = "cbor_metadata" THEN Some(value[2]) ELSE None
\* serde_cbor::from_slice::<Vec<String>>
decode_hashes(value) ==
    IF value[1] = "cbor_hashes" THEN Some(value[2]) ELSE None

\* PeerRecord: the prefix of the record key, the value, the peer it came from
PeerRecord(key, value, peer) == [key |-> key, value |-> value, peer |-> peer]

\* the summary line of a file index: "<n> file" or "<n> files"
file_count_line(n) ==
    IF n = 0 THEN "0 files" ELSE IF n = 1 THEN "1 file"
    ELSE IF n = 2 THEN "2 files" ELSE "more files"

\* /list_files: one tracked file_index:: lookup per connected peer
ListFilesCommand(p) ==
    LET peers == SeqOfSet(connected_peers(p))
        ids == new_query_ids(p, Len(peers))
    IN
    /\ ids \subseteq QueryIds
    /\ pending_keys' = [pending_keys EXCEPT ![p] = @ \cup ids]
    /\ queries' = [queries EXCEPT
            ![p] = @ \o [i \in 1..Len(peers) |-> FileIndexKey(peers[i])]]
    /\ last' = Last("list_files", "sent")
    /\ UNCHANGED <<put_records, chat_vars, trade_vars, store_vars, traded_files, net,
                   shown, finished, loop_vars>>

\* faulty variant: every result passes for a tracked one
kad_tracked_always(p, id) == TRUE
\* pending_keys.remove(&id): whether the id was tracked
kad_tracked(p, id) == id \in pending_keys[p]

\* what the handler does with a found record
kad_outcome(p, id, record) ==
    IF record.key = "file"
    THEN IF ~kad_tracked(p, id) THEN "discarded"
         ELSE IF decode_metadata(record.value) = None THEN "decode_error"
         ELSE "displayed"
    ELSE IF record.key = "file_index"
    THEN IF record.peer = None \/ ~kad_tracked(p, id) THEN "discarded"
         ELSE IF decode_hashes(record.value) = None THEN "decode_error"
         ELSE file_count_line(Len(Unwrap(decode_hashes(record.value))))
    ELSE "unexpected"

\* faulty variant: a hash listed twice is looked up once
kad_fan_out_first(p, id, record) ==
    IF record.key = "file_index" /\ record.peer # None /\ kad_tracked(p, id)
       /\ decode_hashes(record.value) # None
       /\ Len(Unwrap(decode_hashes(record.value))) > 0
    THEN <<FileKey(Unwrap(decode_hashes(record.value))[1])>>
    ELSE <<>>
\* the file:: lookups a processed file index fans out into: one per hash
kad_fan_out(p, id, record) ==
    IF record.key = "file_index" /\ record.peer # None /\ kad_tracked(p, id)
       /\ decode_hashes(record.value) # None
    THEN LET hashes == Unwrap(decode_hashes(record.value))
         IN [i \in 1..Len(hashes) |-> FileKey(hashes[i])]
    ELSE <<>>

\* handle_kad_event, GetRecord(Ok(FoundRecord))
KadFoundRecord(p, id, record) ==
    LET outcome == kad_outcome(p, id, record)
        lookups == kad_fan_out(p, id, record)
        ids == new_query_ids(p, Len(lookups))
    IN /\ id < next_query(p)
       /\ id \notin finished[p]
       /\ ids \subseteq QueryIds
       /\ IF outcome = "discarded"
          THEN UNCHANGED <<kad_vars, last>>
          ELSE IF outcome = "unexpected"
          THEN /\ last' = Last("kad_record", outcome)
               /\ UNCHANGED kad_vars
          ELSE /\ pending_keys' =
                     [pending_keys EXCEPT ![p] = (@ \ {id}) \cup ids]
               /\ queries' = [queries EXCEPT ![p] = @ \o lookups]
               /\ shown' = [shown EXCEPT ![p] = @ \cup {id}]
               /\ UNCHANGED finished
               /\ last' = Last(IF record.key = "file" THEN "kad_file"
                                                     ELSE "kad_file_index",
                               outcome)
       /\ UNCHANGED <<put_records, chat_vars, trade_vars, store_vars, traded_files, net,
                      loop_vars>>

\* how kademlia ends a get_record query: no further record, or an error
QueryEnds == {"FinishedWithNoAdditionalRecord", "NotFound", "Timeout"}

\* handle_kad_event, the last event of a get_record query: every such
\* result takes the default arm, which does nothing
KadQueryFinished(p, id, result) ==
    /\ id < next_query(p)
    /\ id \notin finished[p]
    /\ finished' = [finished EXCEPT ![p] = @ \cup {id}]
    /\ UNCHANGED <<pending_keys, queries, shown, last>>
    /\ UNCHANGED <<put_records, chat_vars, trade_vars, store_vars, traded_files, net,
                   loop_vars>>

\* gossipsub payloads: CBOR of a ChatMessage {message, nickname}
CborChat(message, nick) == <<"cbor_chat", [message |-> message, nickname |-> nick]>>

\* faulty variant: bytes that are no ChatMessage pass for an empty one
decode_chat_lenient(data) ==
    IF data[1] = "cbor_chat" THEN Some(data[2])
    ELSE Some([message |-> "", nickname |-> <<"", ".", IdSuffix("Z")>>])
\* serde_cbor::from_slice::<ChatMessage>
decode_chat(data) == IF data[1] = "cbor_chat" THEN Some(data[2]) ELSE None

\* handle_event, Gossipsub Message from propagation source q: a payload that
\* decodes enters its nickname under q and is shown; any other is dropped
chat_message_handled(p, q, data) ==
    LET chat == decode_chat(data) IN
    /\ q # p
    /\ IF chat = None
       THEN UNCHANGED <<peer_to_nickname, nickname_to_peer, last>>
       ELSE /\ peer_to_nickname' = [peer_to_nickname EXCEPT
                    ![p] = insert_peer_to_nickname(p, q, Unwrap(chat).nickname)]
            /\ nickname_to_peer' = [nickname_to_peer EXCEPT
                    ![p] = insert_nickname_to_peer(p, q, Unwrap(chat).nickname)]
            /\ last' = Last("gossip", Unwrap(chat).message)
    /\ UNCHANGED <<rest_vars, nickname, trade_vars, store_vars, traded_files>>

\* the handler for a payload the environment hands over
GossipsubMessage(p, q, data) ==
    /\ chat_message_handled(p, q, data)
    /\ UNCHANGED net

\* handle_input_line, a line that is no command: it is published with the
\* own nickname; gossipsub sends it toward every other subscribed peer
PublishLine(p, line) ==
    /\ CanSend(Cardinality(connected_peers(p)))
    /\ net' = net (+) SetToBag({Msg("gossipsub", "Message", p, q,
                                     [data |-> CborChat(line, nickname[p])])
                                 : q \in connected_peers(p)})
    /\ last' = Last("publish", line)
    /\ UNCHANGED <<rest_vars, chat_vars, trade_vars, store_vars, traded_files>>

\* the handler for a published message m (m.src its author) whose first
\* copy reaches p from the peer via: the author itself, or a subscribed
\* peer that forwards it; later copies are dropped by gossipsub
GossipDelivered(p, m, via) ==
    /\ m \in InFlight /\ m.dst = p
    /\ m.ch = "gossipsub"
    /\ chat_message_handled(p, via, m.body.data)
    /\ net' = Consume(m)

\* handle_chat_event, Mdns Discovered, for one listed peer: the peer joins
\* the explicit gossipsub peers and a get_closest_peers query is issued
MdnsDiscovered(p, q) ==
    /\ q # p
    /\ new_query_ids(p, 1) \subseteq QueryIds
    /\ explicit_peers' = [explicit_peers EXCEPT ![p] = @ \cup {q}]
    /\ queries' = [queries EXCEPT ![p] = Append(@, ClosestPeers(q))]
    /\ last' = Last("mdns", "discovered")
    /\ UNCHANGED <<put_records, chat_vars, trade_vars, store_vars, traded_files, net,
                   pending_keys, shown, finished, loop>>

\* faulty variant: the expiry also forgets the peer and its proposals
MdnsExpired_forgetting(p, q) ==
    /\ q # p
    /\ explicit_peers' = [explicit_peers EXCEPT ![p] = @ \ {q}]
    /\ peer_to_nickname' = [peer_to_nickname EXCEPT ![p] = MapRemove(@, q)]
    /\ incoming_trades' = [incoming_trades EXCEPT ![p] = MapRemove(@, q)]
    /\ outgoing_trades' = [outgoing_trades EXCEPT ![p] = MapRemove(@, q)]
    /\ last' = Last("mdns", "expired")
    /\ UNCHANGED <<put_records, nickname, nickname_to_peer, store_vars, traded_files, net,
                   kad_vars, loop>>
\* handle_event, Mdns Expired, for one listed peer: the departure is
\* printed and the peer leaves the explicit gossipsub peers
MdnsExpired(p, q) ==
    /\ q # p
    /\ explicit_peers' = [explicit_peers EXCEPT ![p] = @ \ {q}]
    /\ last' = Last("mdns", "expired")
    /\ UNCHANGED <<put_records, chat_vars, trade_vars, store_vars, traded_files, net,
                   kad_vars, loop>>

----------------------------------------------------------------------------
(* main.rs: the state after start-up and the event loop *)

\* the name each user gives at the start-up prompt
StartName == [X |-> "ann", Y |-> "bob"]

Init ==
    /\ nickname = [p \in Peers |-> derive_nickname(StartName[p], p)]
    /\ peer_to_nickname = [p \in Peers |-> EmptyMap]
    /\ nickname_to_peer = [p \in Peers |-> EmptyMap]
    /\ incoming_trades = [p \in Peers |-> EmptyMap]
    /\ outgoing_trades = [p \in Peers |-> EmptyMap]
    /\ metadata = [p \in Peers |-> EmptyMap]
    /\ files = [p \in Peers |-> EmptyMap]
    /\ traded_files = [p \in Peers |-> EmptyMap]
    /\ net = EmptyBag
    /\ last = Last("start", "ready")
    /\ pending_keys = [p \in Peers |-> {}]
    /\ queries = [p \in Peers |-> <<>>]
    /\ shown = [p \in Peers |-> {}]
    /\ finished = [p \in Peers |-> {}]
    /\ explicit_peers = [p \in Peers |-> {}]
    /\ loop = [p \in Peers |-> Select]
    /\ put_records = [p \in Peers |-> EmptyMap]

\* swarm.dial: Ok, or Err (the dial is denied or has no address to try)
DialOutcomes == {"ok", "err"}

\* the discovery tick: the rendezvous point is dialled and, unless the
\* unwrap of the dial's result panics, asked for the registered peers
Tick(p, dial) ==
    /\ loop' = [loop EXCEPT ![p] = IF dial = "ok" THEN @ ELSE Exited]
    /\ last' = Last("tick", IF dial = "ok" THEN "discover" ELSE "panicked")
    /\ UNCHANGED <<put_records, kad_vars, explicit_peers, chat_vars, trade_vars, store_vars,
                   traded_files, net>>

\* nicknames the users type: the one each peer started with
TypedNicknames == {derive_nickname(StartName[q], q) : q \in Peers}

\* hash pairs the users type in /trade: a file of their own disk for a file
\* of another user's disk
TypedTradesOf ==
    [p \in Peers |->
        {<<compute_hash(f.bytes), compute_hash(g.bytes)>> :
            f \in DiskFiles[p], g \in AllDiskFiles \ DiskFiles[p]}]
TypedTrades(p) == TypedTradesOf[p]

\* one iteration of the loop of some peer: an input line or a network event
Input(p) ==
    \/ \E f \in DiskFiles[p] : UploadCommand(p, f, None)
    \/ \E nick \in TypedNicknames, t \in TypedTrades(p) :
          TradeCommand(p, nick, t[1], t[2])
    \/ \E nick \in TypedNicknames : TradeAcceptCommand(p, nick)
    \/ \E nick \in TypedNicknames : TradeDeclineCommand(p, nick)

Event(p, ios) ==
    \/ BootstrapCompleted(p)
    \/ \E m \in InFlight : NicknameRequest(p, m)
    \/ \E m \in InFlight : NicknameResponse(p, m)
    \/ \E m \in InFlight : TradeRequestRequest(p, m)
    \/ \E m \in InFlight : TradeRequestResponse(p, m)
    \/ \E m \in InFlight, io \in ios : FileTransferRequestSome(p, m, io)
    \/ \E m \in InFlight : FileTransferRequestNone(p, m)
    \/ \E m \in InFlight, io \in ios : FileTransferResponseSome(p, m, io)
    \/ \E m \in InFlight : FileTransferResponseNone(p, m)

Next == \E p \in Peers : Input(p) \/ Event(p, IoOutcomes)

Spec == Init /\ [][Next]_vars

\* The loop takes every swarm event the transport hands it (main.rs, the
\* swarm.select_next_some() branch): a message that stays in flight is
\* eventually handled.  Nothing obliges a user to type.
Delivery(p) ==
    /\ WF_vars(\E m \in InFlight : NicknameRequest(p, m))
    /\ WF_vars(\E m \in InFlight : NicknameResponse(p, m))
    /\ WF_vars(\E m \in InFlight : TradeRequestRequest(p, m))
    /\ WF_vars(\E m \in InFlight : TradeRequestResponse(p, m))
    /\ WF_vars(\E m \in InFlight, io \in IoOutcomes :
                  FileTransferRequestSome(p, m, io))
    /\ WF_vars(\E m \in InFlight : FileTransferRequestNone(p, m))
    /\ WF_vars(\E m \in InFlight, io \in IoOutcomes :
                  FileTransferResponseSome(p, m, io))
    /\ WF_vars(\E m \in InFlight : FileTransferResponseNone(p, m))

LiveSpec == Init /\ [][Next]_vars /\ \A p \in Peers : Delivery(p)

----------------------------------------------------------------------------
(* The loop with the discovery tick and with a handler's await shown *)

\* faulty variant: branches are taken while a handler is suspended
AtSelect_always(p) == TRUE
\* loop { tokio::select! { .. } }: a branch is taken only when the loop is
\* back at select!, that is when the handler before it has returned
AtSelect(p) == loop[p] = Select

LoopNext ==
    \/ \E p \in Peers : AtSelect(p) /\ Input(p)
    \/ \E p \in Peers : AtSelect(p) /\ BootstrapCompleted(p)
    \/ \E p \in Peers, m \in InFlight : AtSelect(p) /\ NicknameRequest(p, m)
    \/ \E p \in Peers, m \in InFlight : AtSelect(p) /\ NicknameResponse(p, m)
    \/ \E p \in Peers, m \in InFlight : AtSelect(p) /\ TradeRequestRequest(p, m)
    \/ \E p \in Peers, m \in InFlight : AtSelect(p) /\ TradeRequestResponse(p, m)
    \/ \E p \in Peers, m \in InFlight :
          /\ AtSelect(p) /\ m.dst = p /\ ~has_outgoing_trade(p, m.src)
          /\ FileTransferRequestSome(p, m, "ok")
    \/ \E p \in Peers, m \in InFlight : AtSelect(p) /\ FileTransferRequestAwait(p, m)
    \/ \E p \in Peers, io \in IoOutcomes : FileTransferRequestResume(p, io)
    \/ \E p \in Peers, m \in InFlight : AtSelect(p) /\ FileTransferRequestNone(p, m)
    \/ \E p \in Peers, m \in InFlight, io \in IoOutcomes :
          AtSelect(p) /\ FileTransferResponseSome(p, m, io)
    \/ \E p \in Peers, m \in InFlight : AtSelect(p) /\ FileTransferResponseNone(p, m)
    \/ \E p \in Peers, dial \in DialOutcomes : AtSelect(p) /\ Tick(p, dial)

LoopSpec == Init /\ [][LoopNext]_vars

----------------------------------------------------------------------------
(* The directory under renaming and under peers outside the model *)

\* set_nickname with a name: the own nickname is derived and written into
\* both halves of the directory (add_peer_to_store); /nick keeps the result
set_nickname(p, name) ==
    LET new_nickname == derive_nickname(name, p) IN
    /\ nickname' = [nickname EXCEPT ![p] = new_nickname]
    /\ peer_to_nickname' = [peer_to_nickname EXCEPT
            ![p] = insert_peer_to_nickname(p, p, new_nickname)]
    /\ nickname_to_peer' = [nickname_to_peer EXCEPT
            ![p] = insert_nickname_to_peer(p, p, new_nickname)]
    /\ last' = Last("nick", "set")

\* /nick <name>, or the same done at start-up
SetNickname(p, name) ==
    /\ set_nickname(p, name)
    /\ UNCHANGED <<rest_vars, trade_vars, store_vars, traded_files, net>>

\* what follows /nick when no name is given: nothing, or a blank argument
NickArgs == {None, Some(" ")}
\* line.trim().is_empty(), for the lines typed at the prompt
trim_is_empty(line) == line \in {"", " "}

\* /nick without a name or with a blank one: the handler calls
\* prompt_for_nickname and is suspended at its stdin.next_line().await
NickCommandPrompt(p, arg) ==
    /\ IF arg = None THEN TRUE ELSE trim_is_empty(Unwrap(arg))
    /\ loop' = [loop EXCEPT ![p] = Prompting]
    /\ last' = Last("nick", "prompt")
    /\ UNCHANGED <<put_records, kad_vars, explicit_peers, chat_vars, trade_vars,
                   store_vars, traded_files, net>>

\* what next_line gives at the prompt: a line, or the end of the input
PromptInputs == {Some(""), Some(" "), None} \cup {Some(name) : name \in Names}

\* prompt_for_nickname, one turn of its while loop: a line that is not
\* blank sets the nickname and lets the handler return; a blank line or
\* the end of the input only prints and waits again
PromptLine(p, input) ==
    /\ loop[p] = Prompting
    /\ IF (IF input = None THEN FALSE ELSE ~trim_is_empty(Unwrap(input)))
       THEN /\ set_nickname(p, Unwrap(input))
            /\ loop' = [loop EXCEPT ![p] = Select]
       ELSE UNCHANGED <<chat_vars, loop, last>>
    /\ UNCHANGED <<put_records, kad_vars, explicit_peers, trade_vars, store_vars,
                   traded_files, net>>

\* nicknames a peer outside the model announces: whatever it likes, the
\* nickname of another peer included
AnnouncedNicknames == {derive_nickname("bob", "Y")}

\* the peers a peer outside the model is connected to
RemoteLinks == {<<"Z", "X">>}

\* a peer outside the model pushes its nickname to p
RemoteAnnounce(q, p, nick) ==
    /\ <<q, p>> \in RemoteLinks
    /\ CanSend(1)
    /\ net' = Send(Msg("nickname_update", "Request", q, p, [nickname |-> nick]))
    /\ UNCHANGED <<rest_vars, chat_vars, trade_vars, store_vars, traded_files, last>>

\* a peer outside the model takes the answer addressed to it
RemoteReceives(m) ==
    /\ m \in InFlight /\ m.dst \notin Peers
    /\ net' = Consume(m)
    /\ UNCHANGED <<rest_vars, chat_vars, trade_vars, store_vars, traded_files, last>>

DirNext ==
    \/ \E p \in Peers, name \in Names : SetNickname(p, name)
    \/ \E p \in Peers : BootstrapCompleted(p)
    \/ \E p \in Peers, q \in Ids, nick \in AnnouncedNicknames :
          RemoteAnnounce(q, p, nick)
    \/ \E m \in InFlight : RemoteReceives(m)
    \/ \E p \in Peers, m \in InFlight : NicknameRequest(p, m)
    \/ \E p \in Peers, m \in InFlight : NicknameResponse(p, m)

DirSpec == Init /\ [][DirNext]_vars

----------------------------------------------------------------------------
(* The kademlia lookups under whatever the DHT answers *)

\* what the DHT holds: the metadata and the index of the files on X's disk
\* and on every disk, published by a peer outside the model
ListedHashes == {compute_hash(f.bytes) : f \in DiskFiles["X"]}
IndexValues ==
    {CborHashes(<<>>), Junk}
    \cup {CborHashes(<<h>>) : h \in ListedHashes}
    \cup {CborHashes(<<h, compute_hash(g.bytes)>>) :
             h \in ListedHashes, g \in DiskFiles["Y"]}
MetadataValues ==
    {CborMetadata(FileMetadata(f.filename, "Z", None, f.bytes)) :
        f \in DiskFiles["X"]} \cup {Junk}

\* the found records the DHT can hand over
FoundRecords ==
    {PeerRecord("file", v, None) : v \in MetadataValues}
    \cup {PeerRecord("file_index", v, pr) :
             v \in IndexValues, pr \in {None, Some("Z")}}
    \cup {PeerRecord("peer", Junk, None)}

KadNext ==
    \/ \E p \in Peers : ListFilesCommand(p)
    \/ \E p \in Peers, q \in Peers : MdnsDiscovered(p, q)
    \/ \E p \in Peers, id \in QueryIds, record \in FoundRecords :
          KadFoundRecord(p, id, record)

KadSpec == Init /\ [][KadNext]_vars

\* lookups from their start to their end: kademlia ends every query, by
\* its last result or by the query timeout, and the loop takes every event
KadLiveNext ==
    \/ \E p \in Peers : ListFilesCommand(p)
    \/ \E p \in Peers, id \in QueryIds, record \in FoundRecords :
          KadFoundRecord(p, id, record)
    \/ \E p \in Peers, id \in QueryIds, result \in QueryEnds :
          KadQueryFinished(p, id, result)

KadLiveSpec ==
    /\ Init /\ [][KadLiveNext]_vars
    /\ \A p \in Peers, id \in QueryIds :
          WF_vars(\E result \in QueryEnds : KadQueryFinished(p, id, result))

----------------------------------------------------------------------------
(* Proposals and directory entries while peers are discovered and expire *)

ExpiryNext ==
    \/ \E p \in Peers : \E f \in DiskFiles[p] : UploadCommand(p, f, None)
    \/ \E p \in Peers, nick \in TypedNicknames :
          \E t \in TypedTrades(p) : TradeCommand(p, nick, t[1], t[2])
    \/ \E p \in Peers : BootstrapCompleted(p)
    \/ \E p \in Peers, m \in InFlight : NicknameRequest(p, m)
    \/ \E p \in Peers, m \in InFlight : NicknameResponse(p, m)
    \/ \E p \in Peers, m \in InFlight : TradeRequestRequest(p, m)
    \/ \E p \in Peers, m \in InFlight : TradeRequestResponse(p, m)
    \/ \E p \in Peers, q \in Peers : MdnsDiscovered(p, q)
    \/ \E p \in Peers, q \in Peers : MdnsExpired(p, q)

ExpirySpec == Init /\ [][ExpiryNext]_vars

----------------------------------------------------------------------------
(* Direct messages while proposals are opened and declined *)

\* the messages the users type
TypedMessages == {"hi"}

DmNext ==
    \/ \E p \in Peers : \E f \in DiskFiles[p] : UploadCommand(p, f, None)
    \/ \E p \in Peers, nick \in TypedNicknames :
          \E t \in TypedTrades(p) : TradeCommand(p, nick, t[1], t[2])
    \/ \E p \in Peers, nick \in TypedNicknames : TradeDeclineCommand(p, nick)
    \/ \E p \in Peers, nick \in TypedNicknames, message \in TypedMessages :
          DmCommand(p, nick, message)
    \/ \E p \in Peers : BootstrapCompleted(p)
    \/ \E p \in Peers, m \in InFlight : NicknameRequest(p, m)
    \/ \E p \in Peers, m \in InFlight : NicknameResponse(p, m)
    \/ \E p \in Peers, m \in InFlight : TradeRequestRequest(p, m)
    \/ \E p \in Peers, m \in InFlight : TradeRequestResponse(p, m)
    \/ \E p \in Peers, m \in InFlight : FileTransferRequestNone(p, m)
    \/ \E p \in Peers, m \in InFlight : DirectMessageRequest(p, m)
    \/ \E p \in Peers, m \in InFlight : DirectMessageResponse(p, m)

DmSpec == Init /\ [][DmNext]_vars

----------------------------------------------------------------------------
(* The file store under any sequence of adds *)

\* contents, file names and descriptions add_file is called with
StoreBytes == {<<1, 2, 3>>, <<>>}
StoreFilenames == {"a.txt", "b.txt"}
StoreDescriptions == {None, Some("notes")}

\* LocalFileStore::add_file: both inserts; the hash is returned
AddFile(p, file_bytes, filename, description) ==
    /\ files' = [files EXCEPT ![p] = add_file_files(p, file_bytes)]
    /\ metadata' = [metadata EXCEPT
            ![p] = add_file_metadata(p, file_bytes, filename, description)]
    /\ last' = Last("add_file", compute_hash(file_bytes))
    /\ UNCHANGED <<rest_vars, chat_vars, trade_vars, traded_files, net>>

StoreNext ==
    \E p \in Peers, file_bytes \in StoreBytes, filename \in StoreFilenames,
       description \in StoreDescriptions :
       AddFile(p, file_bytes, filename, description)

StoreSpec == Init /\ [][StoreNext]_vars

----------------------------------------------------------------------------
(* The store and the published records under any sequence of uploads *)

UploadNext ==
    \E p \in Peers, description \in StoreDescriptions :
       \E f \in UploadDisk[p] : UploadCommand(p, f, description)

UploadSpec == Init /\ [][UploadNext]_vars

----------------------------------------------------------------------------
(* Chat messages and lookups whose payloads may fail to decode *)

\* payloads of the pub/sub messages that arrive
GossipData == {CborChat("hi", derive_nickname(StartName["X"], "X")), Junk}

DecodeNext ==
    \/ \E p \in Peers : ListFilesCommand(p)
    \/ \E p \in Peers, id \in QueryIds, record \in FoundRecords :
          KadFoundRecord(p, id, record)
    \/ \E p \in Peers, q \in Peers, data \in GossipData :
          GossipsubMessage(p, q, data)

DecodeSpec == Init /\ [][DecodeNext]_vars

----------------------------------------------------------------------------
(* The loop while /nick prompts for a name *)

\* the events the loop of p takes from the swarm
HandleEvent(p) ==
    \/ \E m \in InFlight : AtSelect(p) /\ NicknameRequest(p, m)
    \/ \E m \in InFlight : AtSelect(p) /\ NicknameResponse(p, m)

PromptNext ==
    \/ \E p \in Peers : AtSelect(p) /\ BootstrapCompleted(p)
    \/ \E p \in Peers : HandleEvent(p)
    \/ \E p \in Peers, name \in Names : AtSelect(p) /\ SetNickname(p, name)
    \/ \E p \in Peers, arg \in NickArgs : AtSelect(p) /\ NickCommandPrompt(p, arg)
    \/ \E p \in Peers, input \in PromptInputs : PromptLine(p, input)

\* select! takes a swarm event that is ready whenever the loop is back at
\* it; nothing obliges the user to type
PromptSpec ==
    /\ Init /\ [][PromptNext]_vars
    /\ \A p \in Peers : WF_vars(HandleEvent(p))

----------------------------------------------------------------------------
(* Chat lines published, forwarded and received *)

\* lines the users type that are no commands
TypedLines == {"hi", "bye"}

GossipNext ==
    \/ \E p \in Peers : BootstrapCompleted(p)
    \/ \E p \in Peers, m \in InFlight : NicknameRequest(p, m)
    \/ \E p \in Peers, m \in InFlight : NicknameResponse(p, m)
    \/ \E p \in Peers, line \in TypedLines : PublishLine(p, line)
    \/ \E p \in Peers, m \in InFlight, via \in Ids : GossipDelivered(p, m, via)

GossipSpec == Init /\ [][GossipNext]_vars

----------------------------------------------------------------------------
(* Trades whose requested hash may be one the counterpart does not hold *)

\* a hash a user can type that is in nobody's store
UnheldHash == compute_hash(<<9>>)

\* hash pairs typed in /trade: as above, or a file of one's own disk for
\* the hash nobody holds
RaceTradesOf ==
    [p \in Peers |->
        TypedTradesOf[p]
            \cup {<<compute_hash(f.bytes), UnheldHash>> : f \in DiskFiles[p]}]

RaceInput(p) ==
    \/ \E f \in DiskFiles[p] : UploadCommand(p, f, None)
    \/ \E nick \in TypedNicknames, t \in RaceTradesOf[p] :
          TradeCommand(p, nick, t[1], t[2])
    \/ \E nick \in TypedNicknames : TradeAcceptCommand(p, nick)
    \/ \E nick \in TypedNicknames : TradeDeclineCommand(p, nick)

RaceNext == \E p \in Peers : RaceInput(p) \/ Event(p, IoOutcomes)

RaceSpec == Init /\ [][RaceNext]_vars

----------------------------------------------------------------------------
(* Properties of the trade commands and handlers *)

\* the identity the directory of p gives for a typed nickname
Named(p, nick) ==
    IF nick \in DOMAIN nickname_to_peer[p] THEN {nickname_to_peer[p][nick]} ELSE {}

TradeReqMsg(p, q, trade) == Msg("trade_request", "Request", p, q, trade)
AckMsg(p, q, request, ack) ==
    Msg("trade_request", "Response", p, q, [ack |-> ack, request |-> request])
FileReqMsg(p, q, payload) ==
    Msg("file_transfer", "Request", p, q, [payload |-> payload])
FileRespMsg(p, q, payload) ==
    Msg("file_transfer", "Response", p, q, [payload |-> payload])

\* C1: a /trade toward a counterpart with whom an outgoing or an incoming
\* proposal is already held changes neither ledger and sends nothing.
C1_TradeRejectedWhileNegotiating ==
    [][\A p \in Peers, nick \in TypedNicknames :
         \A t \in TypedTrades(p), q \in Named(p, nick) :
            (/\ TradeCommand(p, nick, t[1], t[2])
             /\ (q \in DOMAIN incoming_trades[p] \/ q \in DOMAIN outgoing_trades[p]))
            => /\ incoming_trades' = incoming_trades
               /\ outgoing_trades' = outgoing_trades
               /\ net' = net]_vars

\* C1 witness: one peer can name a counterpart it holds an outgoing proposal
\* for, another can name a counterpart it holds an incoming proposal from,
\* and both own the file they would offer: a /trade typed by either is the
\* rejected one.
C1_Witness ==
    /\ \E p \in Peers, nick \in TypedNicknames : \E q \in Named(p, nick) :
          /\ q \in DOMAIN outgoing_trades[p]
          /\ \E t \in TypedTrades(p) : t[1] \in DOMAIN metadata[p]
    /\ \E p \in Peers, nick \in TypedNicknames : \E q \in Named(p, nick) :
          /\ q \in DOMAIN incoming_trades[p]
          /\ q \notin DOMAIN outgoing_trades[p]
          /\ \E t \in TypedTrades(p) : t[1] \in DOMAIN metadata[p]

\* C3 as stated: right after a /trade_accept toward P that was sent, no
\* incoming proposal from P is held.
C3_AcceptRemovesIncoming ==
    [][\A p \in Peers, nick \in TypedNicknames : \A q \in Named(p, nick) :
         (TradeAcceptCommand(p, nick) /\ trade_accept_outcome(p, nick) = "sent")
         => q \notin DOMAIN incoming_trades'[p]]_vars

\* C3 amended: a /trade_accept that was sent leaves the incoming ledger as it
\* was; the incoming proposal from P is removed when a file-transfer response
\* from P that carries a payload is handled.
C3_IncomingRemovedOnResponse ==
    [][/\ \A p \in Peers, nick \in TypedNicknames :
            (TradeAcceptCommand(p, nick) /\ trade_accept_outcome(p, nick) = "sent")
            => incoming_trades' = incoming_trades
       /\ \A p \in Peers, m \in InFlight, io \in IoOutcomes :
            FileTransferResponseSome(p, m, io)
            => /\ m.src \notin DOMAIN incoming_trades'[p]
               /\ \A r \in DOMAIN incoming_trades[p] \ {m.src} :
                     /\ r \in DOMAIN incoming_trades'[p]
                     /\ incoming_trades'[p][r] = incoming_trades[p][r]]_vars

\* C3 witness: an accept has just been sent and the accepted proposal is
\* still in the incoming ledger.
C3_Witness ==
    /\ last = Last("trade_accept", "sent")
    /\ \E p \in Peers : \E q \in DOMAIN incoming_trades[p], m \in InFlight :
             /\ m.ch = "file_transfer" /\ m.kind = "Request"
             /\ m.src = p /\ m.dst = q /\ m.body.payload # None

\* C4: the acknowledgement of a trade request says whether the requested
\* hash is in the receiver's store; the request is recorded under the sender
\* exactly when it is; when it is not, no ledger changes.
C4_TradeRequestAcknowledged ==
    [][\A p \in Peers, m \in InFlight :
         TradeRequestRequest(p, m)
         => LET present == m.body.requested_file \in DOMAIN files[p] IN
            /\ net' = (net (-) SetToBag({m}))
                          (+) SetToBag({AckMsg(p, m.src, m.body, present)})
            /\ outgoing_trades' = outgoing_trades
            /\ present => /\ m.src \in DOMAIN incoming_trades'[p]
                          /\ incoming_trades'[p][m.src] = m.body
            /\ ~present => incoming_trades' = incoming_trades]_vars

\* C4 witness: a request for a file the receiver does not have has just been
\* answered with false, and the receiver holds no proposal from the sender.
C4_Witness ==
    /\ last = Last("trade_request", "file_absent")
    /\ \E p \in Peers, q \in Peers :
          /\ q \notin DOMAIN incoming_trades[p]
          /\ p \in DOMAIN outgoing_trades[q]
          /\ BagIn(AckMsg(p, q, outgoing_trades[q][p], FALSE), net)

\* C5: an acknowledgement of true changes no ledger, store or file; an
\* acknowledgement of false removes the outgoing proposal for its sender and
\* nothing else.
C5_OutgoingRemovedIffRefused ==
    [][\A p \in Peers, m \in InFlight :
         TradeRequestResponse(p, m)
         => /\ m.body.ack =>
                 /\ outgoing_trades' = outgoing_trades
                 /\ incoming_trades' = incoming_trades
                 /\ UNCHANGED <<rest_vars, chat_vars, store_vars, traded_files>>
            /\ ~m.body.ack =>
                 /\ outgoing_trades' =
                       [outgoing_trades EXCEPT ![p] =
                           [r \in DOMAIN @ \ {m.src} |-> @[r]]]
                 /\ incoming_trades' = incoming_trades]_vars

\* C5 witness: an acknowledgement of true has just been handled and the
\* proposal it answers is still in the outgoing ledger.
C5_Witness ==
    /\ last = Last("trade_response", "acknowledged")
    /\ \E p \in Peers, q \in Peers :
          /\ q \in DOMAIN outgoing_trades[p]
          /\ p \in DOMAIN incoming_trades[q]
          /\ incoming_trades[q][p] = outgoing_trades[p][q]

\* C6: a /trade_decline that goes through removes the decliner's incoming
\* proposal in the step that sends the empty file-transfer request and sends
\* exactly that request; handling an empty file-transfer request removes the
\* handler's outgoing proposal for its sender and sends nothing.
C6_DeclineTearsDownBothSides ==
    [][/\ \A p \in Peers, nick \in TypedNicknames : \A q \in Named(p, nick) :
            (TradeDeclineCommand(p, nick) /\ q \in DOMAIN incoming_trades[p])
            => /\ q \notin DOMAIN incoming_trades'[p]
               /\ net' = net (+) SetToBag({FileReqMsg(p, q, None)})
               /\ outgoing_trades' = outgoing_trades
       /\ \A p \in Peers, m \in InFlight :
            FileTransferRequestNone(p, m)
            => /\ m.src \notin DOMAIN outgoing_trades'[p]
               /\ incoming_trades' = incoming_trades
               /\ net' = net (-) SetToBag({m})]_vars

\* C6 witness: the proposer has just handled the decline; it holds no
\* outgoing proposal for the decliner and the decliner holds no incoming
\* proposal from it.
C6_Witness ==
    /\ last = Last("file_decline", "removed")
    /\ \E p \in Peers, q \in Peers :
          /\ p # q
          /\ q \notin DOMAIN outgoing_trades[p]
          /\ p \notin DOMAIN incoming_trades[q]
          /\ net = EmptyBag

\* C7: a /trade whose offered hash is not in the local store changes no
\* ledger, store, directory or file and sends nothing.
C7_TradeNeedsOfferedFile ==
    [][\A p \in Peers, nick \in TypedNicknames : \A t \in TypedTrades(p) :
         (TradeCommand(p, nick, t[1], t[2]) /\ t[1] \notin DOMAIN files[p])
         => UNCHANGED <<rest_vars, chat_vars, trade_vars, store_vars, traded_files, net>>]_vars

\* C7 witness: a peer that has stored nothing can name a counterpart with
\* whom it holds no proposal either way, so that the missing file is the
\* only reason its /trade is rejected.
C7_Witness ==
    \E p \in Peers, nick \in TypedNicknames : \E q \in Named(p, nick) :
       /\ files[p] = EmptyMap
       /\ q \notin DOMAIN incoming_trades[p]
       /\ q \notin DOMAIN outgoing_trades[p]
       /\ BagCardinality(net) < MaxInFlight

\* C8: a /trade_accept or /trade_decline toward a counterpart from whom no
\* incoming proposal is held changes nothing and sends nothing.
C8_AcceptDeclineNeedIncoming ==
    [][\A p \in Peers, nick \in TypedNicknames :
         (/\ TradeAcceptCommand(p, nick) \/ TradeDeclineCommand(p, nick)
          /\ \A q \in Named(p, nick) : q \notin DOMAIN incoming_trades[p])
         => UNCHANGED <<rest_vars, chat_vars, trade_vars, store_vars, traded_files, net>>]_vars

\* C8 witness: a peer can name a counterpart from whom it holds no incoming
\* proposal although it holds an outgoing one for it and owns the file the
\* counterpart asked about.
C8_Witness ==
    \E p \in Peers, nick \in TypedNicknames : \E q \in Named(p, nick) :
       /\ q \notin DOMAIN incoming_trades[p]
       /\ q \in DOMAIN outgoing_trades[p]
       /\ files[p] # EmptyMap
       /\ BagCardinality(net) < MaxInFlight

\* C9: a file-transfer request with a payload from a sender for whom no
\* outgoing proposal is held is answered with an empty payload; no file is
\* written and no ledger, directory or store changes.
C9_UnsolicitedFileRefused ==
    [][\A p \in Peers, m \in InFlight, io \in IoOutcomes :
         (FileTransferRequestSome(p, m, io) /\ m.src \notin DOMAIN outgoing_trades[p])
         => /\ net' = (net (-) SetToBag({m}))
                          (+) SetToBag({FileRespMsg(p, m.src, None)})
            /\ UNCHANGED <<rest_vars, chat_vars, trade_vars, store_vars, traded_files>>]_vars

\* C9 witness: a file-transfer request has just been refused for want of an
\* outgoing proposal and the empty answer is on its way.
C9_Witness ==
    /\ last = Last("file_request", "no_outgoing_trade")
    /\ \E p \in Peers, q \in Peers :
          /\ BagIn(FileRespMsg(p, q, None), net)
          /\ q \notin DOMAIN outgoing_trades[p]

\* the proposals x can make: a file of its disk for a file of another disk
ProposalsOf ==
    [x \in Peers |->
        {TradeRequest(FileMetadata(f.filename, x, None, f.bytes),
                      compute_hash(g.bytes), derive_nickname(StartName[x], x)) :
            f \in DiskFiles[x], g \in AllDiskFiles \ DiskFiles[x]}]
Proposals(x) == ProposalsOf[x]

\* p has written a file with this hash into its traded_files directory
Persisted(p, hash) ==
    \E fn \in DOMAIN traded_files[p] : compute_hash(traded_files[p][fn]) = hash

\* x holds the outgoing proposal t for y, y holds it as incoming, and the
\* file-transfer request of y's accept, carrying the requested file, is in
\* flight
AcceptInFlight(x, y, t) ==
    /\ x # y
    /\ y \in DOMAIN outgoing_trades[x] /\ outgoing_trades[x][y] = t
    /\ x \in DOMAIN incoming_trades[y] /\ incoming_trades[y][x] = t
    /\ \E m \in InFlight :
          /\ m.ch = "file_transfer" /\ m.kind = "Request"
          /\ m.src = y /\ m.dst = x /\ m.body.payload # None
          /\ compute_hash(Unwrap(m.body.payload).file) = t.requested_file

\* both slots are empty and both files are on disk
Swapped(x, y, t) ==
    /\ y \notin DOMAIN outgoing_trades[x]
    /\ x \notin DOMAIN incoming_trades[y]
    /\ Persisted(x, t.requested_file)
    /\ Persisted(y, t.offered_file.hash)

\* a decline from y to x, or a new trade request from x to y, is in flight
Disturbed(x, y) ==
    \/ BagIn(FileReqMsg(y, x, None), net)
    \/ \E m \in InFlight :
          m.ch = "trade_request" /\ m.kind = "Request" /\ m.src = x /\ m.dst = y

----------------------------------------------------------------------------
(* Properties of the directory *)

\* what a set(id, nick) in the directory of p leaves behind
LatestSet(p, id, nick) ==
    /\ resolve_nickname(p, id)' = nick
    /\ resolve_identity(p, nick)' = Some(id)
    /\ \A other \in Ids \ {id} :
          resolve_nickname(p, other)' = resolve_nickname(p, other)
    /\ \A other \in AllNicknames \ {nick} :
          resolve_identity(p, other)' = resolve_identity(p, other)

FileLookupRecords == {record \in FoundRecords : record.key \in {"file", "file_index"}}

\* C11: a found-record result for a file:: or file_index:: key whose query
\* id has already had a result processed, or was never tracked, is
\* discarded: the handler changes nothing, issues no lookup and shows
\* nothing.  So at most one result is processed per tracked query id.
C11_LookupHandledOnce ==
    [][\/ UNCHANGED vars
       \/ \A p \in Peers : \A id \in 0..(next_query(p) - 1) :
             \A record \in FileLookupRecords :
                KadFoundRecord(p, id, record)
                => /\ id \in pending_keys[p] /\ id \notin pending_keys'[p]
                   /\ id \notin shown[p] /\ id \in shown'[p]]_vars

\* C11 witness: one peer has processed the result of one query, so that a
\* later result with that id is a duplicate, and has issued a query that
\* was never tracked.
C11_Witness ==
    \E p \in Peers :
       /\ \E id \in shown[p] : id \notin pending_keys[p]
       /\ \E id \in 0..(next_query(p) - 1) :
             id \notin shown[p] /\ id \notin pending_keys[p]
       /\ pending_keys[p] # {}

\* C12: a processed file_index:: result that lists n hashes issues exactly
\* n new lookups, the i-th for the file:: key of the i-th listed hash,
\* tracks the query id of each of them, and reports n as the file count.
C12_IndexFansOut ==
    [][\A p \in Peers, id \in QueryIds, record \in FoundRecords :
         ( /\ id \in pending_keys[p]
           /\ record.key = "file_index" /\ record.value[1] = "cbor_hashes"
           /\ record.peer # None
           /\ KadFoundRecord(p, id, record) )
         => LET hashes == record.value[2]
                n == Len(hashes)
                old == Len(queries[p])
            IN /\ Len(queries'[p]) = old + n
               /\ \A i \in 1..old : queries'[p][i] = queries[p][i]
               /\ \A i \in 1..n : /\ queries'[p][old + i] = <<"file", hashes[i]>>
                                   /\ (old + i - 1) \in pending_keys'[p]
               /\ pending_keys'[p] \ pending_keys[p] = old..(old + n - 1)
               /\ last'.op = "kad_file_index"
               /\ n = 0 => last'.res = "0 files"
               /\ n = 1 => last'.res = "1 file"
               /\ n = 2 => last'.res = "2 files"]_vars

\* C12 witness: an index listing two hashes has just been processed, and
\* the two lookups it issued are tracked.
C12_Witness ==
    \E p \in Peers :
       /\ last = Last("kad_file_index", "2 files")
       /\ Len(queries[p]) >= 3
       /\ queries[p][Len(queries[p])][1] = "file"
       /\ queries[p][Len(queries[p]) - 1][1] = "file"
       /\ {Len(queries[p]) - 1, Len(queries[p]) - 2} \subseteq pending_keys[p]

----------------------------------------------------------------------------
(* Properties of peer expiry *)

\* C13: when the discovery of q expires at p, the directory entry of q and
\* the incoming and outgoing proposals keyed by q are unchanged; nothing
\* but the explicit gossipsub registration of q at p is removed.
C13_ExpiryKeepsLedgers ==
    [][\A p \in Peers, q \in Peers :
         MdnsExpired(p, q)
         => /\ MapGet(peer_to_nickname'[p], q) = MapGet(peer_to_nickname[p], q)
            /\ MapGet(incoming_trades'[p], q) = MapGet(incoming_trades[p], q)
            /\ MapGet(outgoing_trades'[p], q) = MapGet(outgoing_trades[p], q)
            /\ UNCHANGED <<chat_vars, trade_vars, store_vars, traded_files,
                           net, kad_vars>>
            /\ explicit_peers' = [explicit_peers EXCEPT ![p] = @ \ {q}]]_vars

\* C13 witness: q has expired at p after having been discovered, while p
\* has q in its directory and holds a proposal from q and a proposal to q.
C13_Witness ==
    \E p \in Peers, q \in Peers :
       /\ last = Last("mdns", "expired")
       /\ q \notin explicit_peers[p]
       /\ \E i \in 1..Len(queries[p]) : queries[p][i] = ClosestPeers(q)
       /\ q \in DOMAIN peer_to_nickname[p]
       /\ q \in DOMAIN incoming_trades[p]
       /\ q \in DOMAIN outgoing_trades[p]

----------------------------------------------------------------------------
(* Properties of direct messages *)

\* a direct-message request from p to q
DmMsg(p, q, message) ==
    Msg("direct_message", "Request", p, q, DirectMessage(message, nickname[p]))

\* C14: /dm sends a direct-message request only if the nickname resolves to
\* an identity and the local peer holds an incoming or an outgoing proposal
\* with that identity, and then sends it to that identity; otherwise the
\* command changes no state and sends nothing.
C14_DmNeedsOpenTrade ==
    [][\A p \in Peers, nick \in TypedNicknames, message \in TypedMessages :
         DmCommand(p, nick, message)
         => IF \E q \in Named(p, nick) : \/ q \in DOMAIN incoming_trades[p]
                                          \/ q \in DOMAIN outgoing_trades[p]
            THEN \E q \in Named(p, nick) :
                    /\ net' = net (+) SetToBag({DmMsg(p, q, message)})
                    /\ UNCHANGED <<chat_vars, trade_vars, store_vars>>
            ELSE UNCHANGED vars]_vars

\* C14 witness: a direct message is in flight to a peer the sender holds a
\* proposal with, and the other peer, which has the sender in its
\* directory, holds no proposal with it any more.
C14_Witness ==
    \E p \in Peers, q \in Peers :
       /\ \E m \in InFlight : m.ch = "direct_message" /\ m.kind = "Request"
                                /\ m.src = p /\ m.dst = q
       /\ q \in DOMAIN outgoing_trades[p]
       /\ p \in DOMAIN peer_to_nickname[q]
       /\ p \notin DOMAIN incoming_trades[q] /\ p \notin DOMAIN outgoing_trades[q]

----------------------------------------------------------------------------
(* Properties of the file store *)

\* the hashes a store can hold
StoreHashes == {compute_hash(file_bytes) : file_bytes \in StoreBytes}

\* C15 as stated: a record of the store is immutable: whatever a later add
\* is called with, the same bytes under another file name or description
\* included, the metadata and the bytes stored under a hash stay the same.
C15_RecordImmutable ==
    [][\A p \in Peers : \A h \in DOMAIN files[p] :
          /\ get_metadata(p, h)' = get_metadata(p, h)
          /\ get_file(p, h)' = get_file(p, h)]_vars

\* C16: right after add(bytes) has returned h, the bytes under h are those
\* bytes; and the store contains exactly the hashes some add has returned:
\* none at the start, and after each add those before and the returned one.
C16_AddGetRoundTrip ==
    [][\A p \in Peers, file_bytes \in StoreBytes, filename \in StoreFilenames,
          description \in StoreDescriptions :
          AddFile(p, file_bytes, filename, description)
          => \E h \in StoreHashes :
                /\ last' = Last("add_file", h)
                /\ get_file(p, h)' = Some(file_bytes)
                /\ \A g \in StoreHashes :
                      contains_file(p, g)' <=> (contains_file(p, g) \/ g = h)
                /\ \A q \in Peers \ {p} : files'[q] = files[q]]_vars

\* C16 witness: right after an add, one store holds the bytes of one
\* content and not the other content, and another store holds both.
C16_Witness ==
    \E p \in Peers, q \in Peers :
       /\ last.op = "add_file"
       /\ get_file(p, last.res) \in {Some(file_bytes) : file_bytes \in StoreBytes}
       /\ \E g \in StoreHashes : ~contains_file(p, g)
       /\ \A g \in StoreHashes : contains_file(q, g)

----------------------------------------------------------------------------
(* Properties of the file-transfer request handler *)

\* what a step has put in flight beyond what was there, m taken out
SentAnswering(m) == BagToSet(net' (-) (net (-) SetToBag({m})))

\* C17 as stated: when the write of the received file fails in the handler
\* of a file-transfer request, the handler aborts: it sends no response
\* that carries a file and reports no success of the trade.
C17_SaveFailureAborts ==
    [][\A p \in Peers : \A m \in InFlight :
         (has_outgoing_trade(p, m.src) /\ FileTransferRequestSome(p, m, "err"))
         => /\ \A r \in SentAnswering(m) : r.body.payload = None
            /\ \A i \in DOMAIN file_request_printed(p, m.src, "err") :
                  file_request_printed(p, m.src, "err")[i] # "Trade successful!"]_vars

----------------------------------------------------------------------------
(* Properties of the main loop *)

\* C18 as stated: once the loop is entered no iteration ends the process,
\* whatever the line, the event or the tick, a failed dial included.
C18_LoopNeverExits == \A p \in Peers : loop[p] # Exited

\* what the handlers of p work on, and the messages that concern p
PeerState(p) ==
    <<nickname[p], peer_to_nickname[p], nickname_to_peer[p], incoming_trades[p],
      outgoing_trades[p], metadata[p], files[p], traded_files[p],
      pending_keys[p], queries[p], shown[p], explicit_peers[p]>>
SentBy(p) == [m \in {m \in InFlight : m.src = p} |-> net[m]]
PendingFor(p) == [m \in {m \in InFlight : m.dst = p} |-> net[m]]

\* C19: the handlers of a peer exclude each other: a handler starts only
\* when the loop is at select!, and while one is suspended at an await
\* nothing of the peer's state changes, the peer sends nothing and takes
\* no event, until that same handler has resumed and returned.
C19_HandlersExclusive ==
    [][\A p \in Peers :
         /\ (loop'[p] # loop[p] /\ loop'[p] # Select) => loop[p] = Select
         /\ loop[p] # Select
            => \/ \E io \in IoOutcomes : FileTransferRequestResume(p, io)
               \/ /\ loop'[p] = loop[p]
                  /\ PeerState(p)' = PeerState(p)
                  /\ \A m \in DOMAIN SentBy(p)' :
                        m \in DOMAIN SentBy(p) /\ SentBy(p)'[m] <= SentBy(p)[m]
                  /\ \A m \in DOMAIN PendingFor(p) :
                        m \in DOMAIN PendingFor(p)'
                        /\ PendingFor(p)'[m] >= PendingFor(p)[m]]_vars

\* C19 witness: a handler of p is suspended at its await while another
\* event for p is waiting and the other peer has just run a handler.
C19_Witness ==
    \E p \in Peers :
       /\ loop[p][1] = "save_file"
       /\ \E m \in InFlight : m.dst = p /\ m # loop[p][2]
       /\ last.op \in {"bootstrap", "trade_accept", "upload"}

\* what C20 says of the ledger and of the answer: the proposal held for the
\* sender is removed, and the answer carries the bytes the store holds
\* under the hash of the file the proposal offered, with that file's record
RequestAnswered(p, m) ==
    LET trade_details == outgoing_trades[p][m.src] IN
    /\ outgoing_trades'[p] = MapRemove(outgoing_trades[p], m.src)
    /\ trade_details.offered_file.hash \in DOMAIN files[p]
    /\ net' = (net (-) SetToBag({m})) (+) SetToBag({FileRespMsg(p, m.src,
                  Some([file |-> files[p][trade_details.offered_file.hash],
                        metadata |-> trade_details.offered_file]))})

\* the received bytes are in traded_files under the declared file name
ReceivedPersisted(p, m) ==
    LET file_response == Unwrap(m.body.payload) IN
    /\ file_response.metadata.filename \in DOMAIN traded_files'[p]
    /\ traded_files'[p][file_response.metadata.filename] = file_response.file
    /\ \A fn \in DOMAIN traded_files[p] \ {file_response.metadata.filename} :
          fn \in DOMAIN traded_files'[p] /\ traded_files'[p][fn] = traded_files[p][fn]

----------------------------------------------------------------------------
(* Properties of the file-transfer response handler *)

----------------------------------------------------------------------------
(* Properties of nickname resolution *)

NickMsg(kind, p, q, nick) == Msg("nickname_update", kind, p, q, [nickname |-> nick])

----------------------------------------------------------------------------
(* Properties of the published records *)

\* the hashes the file index p has handed to the DHT lists
IndexListed(p) ==
    LET value == put_records[p][FileIndexKey(p)]
    IN [i \in 1..Len(value[2]) |-> value[2][i]]

\* C24: once a peer has uploaded, the file_index:: record it has handed to
\* the DHT under its own identity lists every hash of its store, nothing
\* else, and none twice, after any sequence of uploads.
C24_IndexListsStore ==
    \A p \in Peers :
       files[p] # EmptyMap
       => /\ FileIndexKey(p) \in DOMAIN put_records[p]
          /\ put_records[p][FileIndexKey(p)][1] = "cbor_hashes"
          /\ {IndexListed(p)[i] : i \in DOMAIN IndexListed(p)} = DOMAIN files[p]
          /\ Len(IndexListed(p)) = Cardinality(DOMAIN files[p])

\* C24 witness: a store of two hashes, one of them uploaded under two file
\* names, with the index listing both hashes.
C24_Witness ==
    \E p \in Peers :
       /\ Cardinality(DOMAIN files[p]) = 2
       /\ FileIndexKey(p) \in DOMAIN put_records[p]
       /\ Len(IndexListed(p)) = 2
       /\ \E h \in DOMAIN metadata[p] : metadata[p][h].filename = "copy.txt"

----------------------------------------------------------------------------
(* Properties of payloads that fail to decode *)

\* found records whose value is no CBOR of what the key announces
UndecodableRecords ==
    {record \in FileLookupRecords :
        IF record.key = "file" THEN record.value[1] # "cbor_metadata"
        ELSE record.value[1] # "cbor_hashes"}

\* C25: a pub/sub message or a DHT record whose payload fails to decode is
\* discarded: the directory and both ledgers are unchanged, no lookup is
\* issued, and nothing is sent; the pub/sub message changes nothing at all.
C25_UndecodableDiscarded ==
    [][\/ UNCHANGED vars
       \/ \A p \in Peers :
            /\ \A q \in Peers : ~GossipsubMessage(p, q, Junk)
            /\ \A id \in 0..(next_query(p) - 1), record \in UndecodableRecords :
                  KadFoundRecord(p, id, record)
                  => UNCHANGED <<chat_vars, trade_vars, queries, net, put_records>>]_vars

\* C25 witness: a record that does not decode has just been handled by a
\* peer that has a directory entry and a lookup still pending.
C25_Witness ==
    /\ last.res = "decode_error"
    /\ \E p \in Peers :
          /\ peer_to_nickname[p] # EmptyMap
          /\ pending_keys[p] # {}
          /\ shown[p] # {}

----------------------------------------------------------------------------
(* Properties of the two ledgers taken together *)

\* no trade-request or file-transfer message is in flight between x and y
Quiescent(x, y) ==
    \A m \in InFlight :
        (m.ch \in {"trade_request", "file_transfer"})
        => ~({m.src, m.dst} = {x, y})

\* x's outgoing proposal for y and y's incoming proposal from x are both
\* absent, or both present with the same offered file and requested hash
LedgersAgree(x, y) ==
    /\ has_outgoing_trade(x, y) <=> has_incoming_trade(y, x)
    /\ has_outgoing_trade(x, y) =>
          /\ outgoing_trades[x][y].offered_file = incoming_trades[y][x].offered_file
          /\ outgoing_trades[x][y].requested_file = incoming_trades[y][x].requested_file

\* C26: whenever nothing of the two trade channels is in flight between two
\* peers, their ledgers agree about the proposals of each to the other.
C26_QuiescentLedgersAgree ==
    \A x \in Peers : \A y \in Peers \ {x} : Quiescent(x, y) => LedgersAgree(x, y)

\* C27: no peer holds an outgoing and an incoming proposal for the same
\* counterpart at the same time.
C27_OneDirectionPerCounterpart ==
    \A p \in Peers : \A q \in Peers \ {p} :
        ~(has_outgoing_trade(p, q) /\ has_incoming_trade(p, q))

\* C28: a refusal removes only the outgoing proposal whose trade request it
\* answers; a proposal made later to the same counterpart stays.
C28_RefusalRemovesOnlyAnswered ==
    [][\A p \in Peers, m \in InFlight :
         (/\ m.ch = "trade_request" /\ m.kind = "Response" /\ m.dst = p
          /\ ~m.body.ack
          /\ TradeRequestResponse(p, m)
          /\ has_outgoing_trade(p, m.src))
         => outgoing_trades[p][m.src] = m.body.request]_vars

\* C29: when a file-transfer request with a payload removes an outgoing
\* proposal, the hash of the received file is the requested hash of the
\* removed proposal.
C29_ReceivedIsRequested ==
    [][\A p \in Peers, m \in InFlight, io \in IoOutcomes :
         (/\ m.ch = "file_transfer" /\ m.kind = "Request" /\ m.dst = p
          /\ has_outgoing_trade(p, m.src)
          /\ FileTransferRequestSome(p, m, io))
         => compute_hash(Unwrap(m.body.payload).file)
                = outgoing_trades[p][m.src].requested_file]_vars

----------------------------------------------------------------------------
(* Properties of the pending set over the life of a lookup *)

\* C30: every tracked query id leaves the pending set once its lookup has
\* finished, whatever the lookup ended with.
C30_FinishedLeavesPending ==
    \A p \in Peers, id \in QueryIds :
        (id \in pending_keys[p] /\ id \in finished[p])
            ~> (id \notin pending_keys[p])

----------------------------------------------------------------------------
(* Properties of the directory entries made from chat messages *)

\* C31: the directory entry made from a received chat message maps the
\* identity of the message's author to the nickname the message carries,
\* whichever peer the message arrived from.
C31_ChatEntryNamesAuthor ==
    [][\A p \in Peers, m \in InFlight, via \in Ids :
         (/\ m.ch = "gossipsub" /\ m.dst = p /\ via # p
          /\ GossipDelivered(p, m, via))
         => peer_to_nickname'[p] =
                MapInsert(peer_to_nickname[p], m.src,
                          Unwrap(decode_chat(m.body.data)).nickname)]_vars

\* C32: in every directory the nickname-to-identity map is the inverse of
\* the identity-to-nickname map: a nickname resolves to an identity exactly
\* when that identity's current nickname is that nickname.
C32_DirectoryMapsInverse ==
    \A p \in Peers :
        /\ \A nick \in DOMAIN nickname_to_peer[p] :
              /\ nickname_to_peer[p][nick] \in DOMAIN peer_to_nickname[p]
              /\ peer_to_nickname[p][nickname_to_peer[p][nick]] = nick
        /\ \A id \in DOMAIN peer_to_nickname[p] :
              /\ peer_to_nickname[p][id] \in DOMAIN nickname_to_peer[p]
              /\ nickname_to_peer[p][peer_to_nickname[p][id]] = id

----------------------------------------------------------------------------
(* Properties of the direct messages a peer is shown *)

\* C33: a direct message is shown to a peer only if, when it is handled,
\* that peer holds an incoming or an outgoing proposal with the sender.
C33_DmShownOnlyInTrade ==
    [][\A p \in Peers, m \in InFlight :
         (/\ m.ch = "direct_message" /\ m.kind = "Request" /\ m.dst = p
          /\ DirectMessageRequest(p, m))
         => (has_incoming_trade(p, m.src) \/ has_outgoing_trade(p, m.src))]_vars

----------------------------------------------------------------------------
(* Properties of the loop's suspension points *)

\* the messages in flight toward p
Inbox(p) == {m \in InFlight : m.dst = p}

\* C34: the loop waits only at select!: a handler that has been entered
\* returns without further input of the user, and a peer with events
\* waiting keeps handling events whether or not the user types.
C34_LoopWaitsOnlyAtSelect ==
    \A p \in Peers :
        /\ (loop[p] # Select) ~> (loop[p] = Select)
        /\ <>[](Inbox(p) # {}) => []<><<HandleEvent(p)>>_vars

----------------------------------------------------------------------------
(* Properties of the two maps of the file store *)

\* C35: in every store the bytes map and the metadata map have the same
\* keys, so a hash that contains_file reports has a record get_metadata
\* returns.
C35_StoreMapsSameKeys ==
    \A p \in Peers :
        /\ DOMAIN files[p] = DOMAIN metadata[p]
        /\ \A hash \in StoreHashes :
              contains_file(p, hash) => get_metadata(p, hash) # None

\* C35 witness: add_file has just run, the store holds two files, one of
\* them under a name other than a.txt, and has a record for each.
C35_Witness ==
    \E p \in Peers :
        /\ Cardinality(DOMAIN files[p]) = 2
        /\ \A hash \in DOMAIN files[p] : get_metadata(p, hash) # None
        /\ \E hash \in DOMAIN files[p] :
              metadata[p][hash].filename # "a.txt"
        /\ last.op = "add_file"

====
